---- MODULE Spec2Model ----
(***************************************************************************)
(* Model of RequirementsSearchEngine (src/unnamed/part_002): the chunker   *)
(* splitIntoChunks, run as the loop the code runs (ChunkSpec), and the     *)
(* batched embedding pipeline of indexDocument (IndexSpec).                *)
(*                                                                         *)
(* A text is a sequence of one-character strings; " " is the whitespace    *)
(* character, every other character is a word character.                   *)
(***************************************************************************)
EXTENDS Integers, Sequences, FiniteSets, TLC

\* ---------------------------------------------------------------- bounds
\* longest text given to the chunker run
MaxLen == 5
\* largest chunkSize / overlap argument given to the chunker run
MaxChunkSize == 3
\* iterations explored of a chunker loop whose stride is not positive
MaxSteps == 3

\* most rows and columns of a sheet of an indexed workbook
MaxRows == 2
MaxCols == 2
\* most cells of an indexed workbook, over all its sheets
MaxCells == 2

\* ------------------------------------------------------ program constants
DefaultChunkSize == 500
DefaultOverlap == 50
BatchSize == 5

Chars == {"a", "b", " "}

IsWs(c) == c = " "

Min(a, b) == IF a < b THEN a ELSE b
Max(a, b) == IF a > b THEN a ELSE b

\* ------------------------------------------------------- JS string/array
\* String.prototype.split(/\s+/) on t[lo..hi]: the pieces between maximal
\* whitespace runs, with an empty piece before a leading run and after a
\* trailing one; "" splits to [""].  Computed by halving so that long texts
\* need only logarithmic nesting.
RECURSIVE SplitRange(_, _, _)
SplitRange(t, lo, hi) ==
  IF lo > hi THEN << <<>> >>
  ELSE IF lo = hi THEN (IF IsWs(t[lo]) THEN << <<>>, <<>> >> ELSE << <<t[lo]>> >>)
  ELSE LET mid == (lo + hi) \div 2
           L == SplitRange(t, lo, mid)
           R == SplitRange(t, mid + 1, hi)
           frontL == SubSeq(L, 1, Len(L) - 1)
       IN  IF IsWs(t[mid]) /\ IsWs(t[mid + 1])
           THEN frontL \o Tail(R)
           ELSE frontL \o << L[Len(L)] \o Head(R) >> \o Tail(R)

Split(t) == SplitRange(t, 1, Len(t))

\* Array.prototype.slice(start, end) with the 0-based indexes of the code;
\* a negative index counts from the end of the array.
Slice(s, start, end) ==
  LET len == Len(s)
      from == IF start < 0 THEN Max(len + start, 0) ELSE Min(start, len)
      to == IF end < 0 THEN Max(len + end, 0) ELSE Min(end, len)
  IN  SubSeq(s, from + 1, to)

\* Array.prototype.join(sep) on ws[lo..hi], computed by halving
RECURSIVE JoinRange(_, _, _, _)
JoinRange(ws, sep, lo, hi) ==
  IF lo > hi THEN <<>>
  ELSE IF lo = hi THEN ws[lo]
  ELSE LET mid == (lo + hi) \div 2
       IN  JoinRange(ws, sep, lo, mid) \o sep \o JoinRange(ws, sep, mid + 1, hi)

\* Array.prototype.join(' ')
Join(ws) == JoinRange(ws, <<" ">>, 1, Len(ws))

\* String.prototype.trim()
RECURSIVE TrimLeft(_)
TrimLeft(t) == IF Len(t) > 0 /\ IsWs(t[1]) THEN TrimLeft(Tail(t)) ELSE t

RECURSIVE TrimRight(_)
TrimRight(t) ==
  IF Len(t) > 0 /\ IsWs(t[Len(t)]) THEN TrimRight(SubSeq(t, 1, Len(t) - 1)) ELSE t

Trim(t) == TrimRight(TrimLeft(t))

\* ------------------------------------------------------- splitIntoChunks
StrideWide(chunkSize, overlap) == chunkSize + overlap

\* the loop increment of line 44
Stride(chunkSize, overlap) == chunkSize - overlap

KeepAlways(chunk) == TRUE

\* the test of line 46
KeepChunk(chunk) == Len(Trim(chunk)) > 0

\* one iteration of the loop body, lines 45-52: the chunk list after the
\* window at word offset i
LoopBody(ws, cs, i, chunkSize) ==
  LET chunk == Join(Slice(ws, i, i + chunkSize))
  IN  IF KeepChunk(chunk)
      THEN Append(cs, [text |-> Trim(chunk),
                       startIndex |-> i,
                       wordCount |-> Min(chunkSize, Len(ws) - i)])
      ELSE cs

\* the whole loop of lines 44-53 for a positive stride
RECURSIVE ChunkLoop(_, _, _, _, _)
ChunkLoop(ws, cs, i, chunkSize, overlap) ==
  IF i < Len(ws)
  THEN ChunkLoop(ws, LoopBody(ws, cs, i, chunkSize),
                 i + Stride(chunkSize, overlap), chunkSize, overlap)
  ELSE cs

splitIntoChunks(t, chunkSize, overlap) ==
  ChunkLoop(Split(t), <<>>, 0, chunkSize, overlap)

\* ----------------------------------------------------------------- state
VARIABLES
  text, chunkSize, overlap,   \* arguments of the splitIntoChunks run
  words, chunks, i,           \* its locals
  cpc,                        \* its position: "start", "loop", "done"
  file,                       \* the file given to indexDocument
  ipc,                        \* position of indexDocument: "idle", "call",
                              \* "unit", "loop", "await", "delay",
                              \* "resolved", "rejected"
  extractedData,              \* units returned by extractTextFromFile
  unitIdx,                    \* position of the for-of loop of line 168
  nChunks,                    \* chunks.length of the current unit
  batchI,                     \* i of the batch loop of line 184
  tasks,                      \* the callbacks of the current batch, each
                              \* "embedding", "inserting", "done",
                              \* "embFailed" or "insFailed"
  totalChunks,
  error,                      \* what indexDocument rejected with, or <<>>
  delays,                     \* timers of line 221 started in this unit
  embedStarted,               \* embedding calls issued in this run
  insertCount,                \* insertItem calls issued in this run
  insertedIds,                \* their ids
  unitInserted,               \* <<batch start, chunkIndex>> of the
                              \* insertItem calls of the current unit
  inFlight,                   \* the embedding and insertItem calls issued
                              \* and not yet settled, each
                              \* <<kind, unit, batch start, chunkIndex>>
  insertDone,                 \* <<unit, chunkIndex>> of the insertItem
                              \* calls that completed in this run
  \* ---- search
  query, topK, includeTextMatches, minScore,  \* arguments of search
  storeRanked,                \* the items of the store, in the order the
                              \* store ranks them for the query
  spc,                        \* position of search: "idle", "call",
                              \* "embedding", "querying", "resolved",
                              \* "rejected"
  queryCalls,                 \* the counts asked of queryItems, in order
  candidates,                 \* what queryItems returned
  results,                    \* what search returned
  \* ---- engine and store
  isInitialized,
  indexExists,                \* the index is on disk
  storeFiles,                 \* metadata.fileName of the stored items
  op,                         \* the engine operation in progress
  epc,                        \* its position: "idle", "delete", "copy",
                              \* "init", "body", "returned", "threw"
  atCall,                     \* the store and isInitialized as they were
                              \* when op was called
  stats,                      \* what getStats returned
  thrown,                     \* the message of the error op threw, or ""
  storeLog,                   \* the store calls op has made, in order, each
                              \* with how it ended
  prev,                       \* the call before op and whether it succeeded
  backup,                     \* what is at the backupPath of restoreIndex
  \* ---- index command
  files,                      \* the files findDocuments returned
  dryRun, proceed,            \* options.dryRun; the answer to the prompt
  kpc,                        \* position of indexCommand: "idle", "start",
                              \* "loop", "await", "summary", "returned"
  fileIdx,                    \* i of the loop of cli.js line 244, from 1
  successCount, errorCount, cliTotalChunks,
  attempts,                   \* the indexes of the files given to
                              \* indexDocument, in call order
  outcomes,                   \* per attempt, whether it resolved, the ids
                              \* its insertItem calls were given, and its
                              \* chunksCreated
  orphans                     \* callbacks of rejected indexDocument calls
                              \* that are still running

chunkVars == <<text, chunkSize, overlap, words, chunks, i, cpc>>

indexVars == <<file, ipc, extractedData, unitIdx, nChunks, batchI, tasks,
               totalChunks, error, delays, embedStarted, insertCount,
               insertedIds, unitInserted, inFlight, insertDone>>

searchVars == <<query, topK, includeTextMatches, minScore, storeRanked, spc,
                queryCalls, candidates, results>>

engineVars == <<isInitialized, indexExists, storeFiles, op, epc, atCall, stats,
                thrown, storeLog, prev, backup>>

cliVars == <<files, dryRun, proceed, kpc, fileIdx, successCount, errorCount,
             cliTotalChunks, attempts, outcomes, orphans>>

restVars == <<searchVars, engineVars, cliVars>>

vars == <<chunkVars, indexVars, restVars>>

\* no indexDocument call
IndexIdle ==
  /\ file = <<>>
  /\ ipc = "idle"
  /\ extractedData = <<>>
  /\ unitIdx = 0
  /\ nChunks = 0
  /\ batchI = 0
  /\ tasks = <<>>
  /\ totalChunks = 0
  /\ error = <<>>
  /\ delays = 0
  /\ embedStarted = 0
  /\ insertCount = 0
  /\ insertedIds = {}
  /\ unitInserted = {}
  /\ inFlight = {}
  /\ insertDone = {}

\* no search call
SearchIdle ==
  /\ query = <<>>
  /\ topK = 0
  /\ includeTextMatches = FALSE
  /\ minScore = 0
  /\ storeRanked = <<>>
  /\ spc = "idle"
  /\ queryCalls = <<>>
  /\ candidates = <<>>
  /\ results = <<>>

\* no engine operation
EngineIdle ==
  /\ isInitialized = FALSE
  /\ indexExists = FALSE
  /\ storeFiles = <<>>
  /\ op = "none"
  /\ epc = "idle"
  /\ atCall = <<>>
  /\ stats = <<>>
  /\ thrown = ""
  /\ storeLog = <<>>
  /\ prev = <<>>
  /\ backup = <<>>

\* no index command
CliIdle ==
  /\ files = <<>>
  /\ dryRun = FALSE
  /\ proceed = TRUE
  /\ kpc = "idle"
  /\ fileIdx = 0
  /\ successCount = 0
  /\ errorCount = 0
  /\ cliTotalChunks = 0
  /\ attempts = <<>>
  /\ outcomes = <<>>
  /\ orphans = {}

\* no splitIntoChunks run of its own
ChunkIdle ==
  /\ text = <<>>
  /\ chunkSize = DefaultChunkSize
  /\ overlap = DefaultOverlap
  /\ words = <<>>
  /\ chunks = <<>>
  /\ i = 0
  /\ cpc = "idle"

Texts == UNION {[1..n -> Chars] : n \in 0..MaxLen}

\* a splitIntoChunks call about to run, for any text and any arguments
\* (the code checks none of them)
ChunkInit ==
  /\ text \in Texts
  /\ chunkSize \in 1..MaxChunkSize
  /\ overlap \in 0..MaxChunkSize
  /\ words = <<>>
  /\ chunks = <<>>
  /\ i = 0
  /\ cpc = "start"
  /\ IndexIdle
  /\ SearchIdle
  /\ EngineIdle
  /\ CliIdle

\* lines 41-42 and the loop initialisation
SplitBegin ==
  /\ cpc = "start"
  /\ words' = Split(text)
  /\ chunks' = <<>>
  /\ i' = 0
  /\ cpc' = "loop"
  /\ UNCHANGED <<text, chunkSize, overlap, indexVars, restVars>>

\* one pass of the loop, lines 44-53
SplitIter ==
  /\ cpc = "loop"
  /\ i < Len(words)
  /\ Stride(chunkSize, overlap) > 0 \/ (Len(chunks) < MaxSteps /\ i > -MaxSteps)
  /\ chunks' = LoopBody(words, chunks, i, chunkSize)
  /\ i' = i + Stride(chunkSize, overlap)
  /\ UNCHANGED <<text, chunkSize, overlap, words, cpc, indexVars, restVars>>

\* loop exit and line 55
SplitReturn ==
  /\ cpc = "loop"
  /\ ~(i < Len(words))
  /\ cpc' = "done"
  /\ UNCHANGED <<text, chunkSize, overlap, words, chunks, i, indexVars, restVars>>

ChunkNext == SplitBegin \/ SplitIter \/ SplitReturn

ChunkSpec == ChunkInit /\ [][ChunkNext]_vars

\* ------------------------------------------------------ chunker claims
\* the word list of the specification: the non-empty pieces of the split
IsWord(w) == Len(w) > 0
RealWords(t) == SelectSeq(Split(t), IsWord)

\* a text that neither starts nor ends with whitespace
Clean(t) == Trim(t) = t

CeilDiv(a, b) == (a + b - 1) \div b

ValidArgs == chunkSize > overlap

WordRange(c) == c.startIndex .. (c.startIndex + c.wordCount - 1)

\* C1: with chunkSize > overlap >= 0, for the word list of length n and
\* stride = chunkSize - overlap, exactly one chunk is emitted per offset
\* 0, stride, 2*stride, ... below n, with startIndex = offset, text = the
\* words [offset, min(offset+chunkSize, n)) and
\* wordCount = min(chunkSize, n - offset).
C1_ChunkPerOffset ==
  (cpc = "done" /\ ValidArgs) =>
    LET W == RealWords(text)
        n == Len(W)
        s == chunkSize - overlap
    IN  chunks = [j \in 1..CeilDiv(n, s) |->
                   [text |-> Join(SubSeq(W, (j - 1) * s + 1,
                                         Min((j - 1) * s + chunkSize, n))),
                    startIndex |-> (j - 1) * s,
                    wordCount |-> Min(chunkSize, n - (j - 1) * s)]]

\* C2: the number of chunks for a text of n words is
\* ceil((n - overlap) / stride) when n > overlap, 1 when 0 < n <= overlap
\* and 0 when n = 0.  Stated on texts without leading or trailing
\* whitespace, where the word count n is the same on every reading.
C2_ChunkCount ==
  (cpc = "done" /\ ValidArgs /\ Clean(text)) =>
    LET n == Len(RealWords(text))
        s == chunkSize - overlap
    IN  Len(chunks) = IF n = 0 THEN 0
                      ELSE IF n <= overlap THEN 1
                      ELSE CeilDiv(n - overlap, s)

\* C3: every pair of consecutive chunks except the last pair shares exactly
\* overlap word positions, and only the final chunk may be shorter than
\* chunkSize.  Stated on texts without leading or trailing whitespace.
C3_OverlapExact ==
  (cpc = "done" /\ ValidArgs /\ Clean(text)) =>
    /\ \A k \in 1..(Len(chunks) - 2) :
         Cardinality(WordRange(chunks[k]) \cap WordRange(chunks[k + 1])) = overlap
    /\ \A k \in 1..(Len(chunks) - 1) : chunks[k].wordCount = chunkSize

C5_ConfigurationError ==
  (chunkSize - overlap <= 0) => (chunks = <<>> /\ cpc # "done")

\* C6: no emitted chunk has an empty trimmed text; an empty or
\* whitespace-only text yields zero chunks and a window without a word is
\* dropped.
C6_NoEmptyChunk ==
  /\ \A k \in 1..Len(chunks) :
       /\ Len(chunks[k].text) > 0
       /\ Trim(chunks[k].text) = chunks[k].text
       /\ ValidArgs => \E j \in 1..Len(words) :
            IsWord(words[j]) /\ (j - 1) \in WordRange(chunks[k])
  /\ (cpc = "done" /\ Len(Trim(text)) = 0) => chunks = <<>>

\* a finished run that emitted a chunk and dropped a window without a word
C6_Witness ==
  /\ cpc = "done"
  /\ ValidArgs
  /\ Len(chunks) >= 1
  /\ Len(chunks) < CeilDiv(Len(words), chunkSize - overlap)

\* a finished run over a whitespace-only text
C6_WitnessBlank ==
  /\ cpc = "done"
  /\ Len(text) > 0
  /\ Len(Trim(text)) = 0
  /\ chunks = <<>>

\* ---------------------------------------------------------- index input
\* A text is described by a leading-whitespace flag and a word count and
\* is spelled out only where the code reads it.
WordsText(n) ==
  [k \in 1..(IF n = 0 THEN 0 ELSE 2 * n - 1) |-> IF k % 2 = 1 THEN "a" ELSE " "]

PartText(p) == [k \in 1..p.lead |-> " "] \o WordsText(p.n)

\* word counts of the texts indexed: none, one word, one full chunk, and
\* enough for a second batch
WordCounts == {0, 1, 500, 2251}

\* contents of a workbook cell, as word counts; 0 is an empty cell
CellWords == {0, 1, 2251}

\* workbook.SheetNames of the indexed workbooks; a sheet may be empty
SheetNames == <<"S1", "S1_row1">>

\* the sheets of at most MaxCells cells: rows of cells over a range that
\* starts at the first row and column
SheetDims ==
  {d \in (0..MaxRows) \X (1..MaxCols) : d[1] * d[2] <= MaxCells}

Sheets == UNION {[1..d[1] -> [1..d[2] -> CellWords]] : d \in SheetDims}

RECURSIVE SumSeq(_)
SumSeq(q) == IF Len(q) = 0 THEN 0 ELSE Head(q) + SumSeq(Tail(q))

CellCount(wb) ==
  SumSeq([k \in 1..Len(wb) |->
            IF Len(wb[k]) = 0 THEN 0 ELSE Len(wb[k]) * Len(wb[k][1])])

Workbooks ==
  {wb \in [1..Len(SheetNames) -> Sheets] : CellCount(wb) <= MaxCells}

NoPart == [lead |-> 0, n |-> 0]

Files ==
  {[fileName |-> "f.txt", ext |-> ".txt", content |-> p, workbook |-> <<>>] :
     p \in [lead : {0, 1}, n : WordCounts]}
  \cup
  {[fileName |-> "f.xlsx", ext |-> ".xlsx", content |-> NoPart, workbook |-> wb] :
     wb \in Workbooks}

\* -------------------------------------------------- extractTextFromFile
\* `cell && cell.v` of line 74
Truthy(c) == c > 0

\* rows r.. of one sheet, lines 69-88: a unit per row with a filled cell
RECURSIVE RowUnits(_, _, _)
RowUnits(sheetName, rows, r) ==
  IF r > Len(rows) THEN <<>>
  ELSE LET rowData == SelectSeq(rows[r], Truthy)
           rest == RowUnits(sheetName, rows, r + 1)
       IN  IF Len(rowData) > 0
           THEN << [text |-> [k \in 1..Len(rowData) |-> [lead |-> 0, n |-> rowData[k]]],
                    sheet |-> sheetName,
                    row |-> r] >> \o rest
           ELSE rest

\* sheets k.. of the workbook, lines 63-89
RECURSIVE extractTextFromExcel(_, _)
extractTextFromExcel(wb, k) ==
  IF k > Len(wb) THEN <<>>
  ELSE RowUnits(SheetNames[k], wb[k], 1) \o extractTextFromExcel(wb, k + 1)

\* the sheet of a unit that has none
NoSheet == ""

\* lines 95-127 for the formats that are read
extractTextFromFile(f) ==
  IF f.ext = ".xlsx"
  THEN LET excelData == extractTextFromExcel(f.workbook, 1)
       IN  [k \in 1..Len(excelData) |->
              [text |-> excelData[k].text, sheet |-> excelData[k].sheet,
               row |-> excelData[k].row, fileName |-> f.fileName, type |-> "excel"]]
  ELSE << [text |-> <<f.content>>, sheet |-> NoSheet, row |-> 0,
           fileName |-> f.fileName, type |-> "text"] >>

\* data.text: the cells of a row joined by ' | ' (line 80), or the text of
\* the file
UnitText(data) ==
  JoinRange([k \in 1..Len(data.text) |-> PartText(data.text[k])],
            <<" ", "|", " ">>, 1, Len(data.text))

\* --------------------------------------------------------- indexDocument
ChunkIdNoRow(data, idx) ==
  IF data.sheet # NoSheet
  THEN data.fileName \o "_" \o data.sheet \o "_chunk" \o ToString(idx)
  ELSE data.fileName \o "_chunk_" \o ToString(idx)

\* lines 190-192
ChunkId(data, idx) ==
  IF data.sheet # NoSheet
  THEN data.fileName \o "_" \o data.sheet \o "_row" \o ToString(data.row)
         \o "_chunk" \o ToString(idx)
  ELSE data.fileName \o "_chunk_" \o ToString(idx)

ChunkIndexLocal(bi, batchIndex) == batchIndex

\* i + batchIndex of lines 191-192 and 204
ChunkIndex(bi, batchIndex) == bi + batchIndex

MoreBatchesAlways(bi, n) == TRUE

\* the test of line 220
MoreBatches(bi, n) == bi + BatchSize < n

BatchLenAll(bi, n) == n - bi

\* chunks.slice(i, i + batchSize).length of line 185
BatchLen(bi, n) == Min(BatchSize, n - bi)

AccumulateLast(total, n) == n

\* totalChunks += chunks.length of line 225
Accumulate(total, n) == total + n

Failed == {"embFailed", "insFailed"}

PromiseAllPending(ts) ==
  IF \E k \in DOMAIN ts : ts[k] \in Failed THEN "rejected" ELSE "pending"

PromiseAllAny(ts) ==
  IF \E k \in DOMAIN ts : ts[k] \in Failed THEN "rejected"
  ELSE IF \E k \in DOMAIN ts : ts[k] = "done" THEN "fulfilled"
  ELSE "pending"

PromiseAllSettled(ts) ==
  IF \A k \in DOMAIN ts : ts[k] \in Failed \cup {"done"} THEN "fulfilled" ELSE "pending"

\* Promise.all over the callbacks of a batch, line 187: rejected as soon as
\* one callback has failed, fulfilled when all are done
PromiseAll(ts) ==
  IF \E k \in DOMAIN ts : ts[k] \in Failed THEN "rejected"
  ELSE IF \A k \in DOMAIN ts : ts[k] = "done" THEN "fulfilled"
  ELSE "pending"

IndexInit ==
  /\ ChunkIdle
  /\ SearchIdle
  /\ EngineIdle
  /\ CliIdle
  /\ file \in Files
  /\ ipc = "call"
  /\ extractedData = <<>>
  /\ unitIdx = 0
  /\ nChunks = 0
  /\ batchI = 0
  /\ tasks = <<>>
  /\ totalChunks = 0
  /\ error = <<>>
  /\ delays = 0
  /\ embedStarted = 0
  /\ insertCount = 0
  /\ insertedIds = {}
  /\ unitInserted = {}
  /\ inFlight = {}
  /\ insertDone = {}

\* lines 126-131 and 228-231: the file cannot be read or its format is not
\* supported, and indexDocument rethrows
ExtractReject ==
  /\ ipc = "call"
  /\ ipc' = "rejected"
  /\ error' = <<"extract", 0, 0>>
  /\ UNCHANGED <<chunkVars, restVars, file, extractedData, unitIdx, nChunks,
                 batchI, tasks, totalChunks, delays, embedStarted, insertCount,
                 insertedIds, unitInserted, inFlight, insertDone>>

\* the call that callback k of the current batch makes, as it is recorded
\* in inFlight
Call(kind, k) == <<kind, unitIdx, batchI, ChunkIndex(batchI, k - 1)>>

\* lines 165-166
IndexBegin ==
  /\ ipc = "call"
  /\ extractedData' = extractTextFromFile(file)
  /\ totalChunks' = 0
  /\ unitIdx' = 1
  /\ ipc' = "unit"
  /\ UNCHANGED <<chunkVars, restVars, file, nChunks, batchI, tasks, error, delays,
                 embedStarted, insertCount, insertedIds, unitInserted,
                 inFlight, insertDone>>

\* lines 168-184: the next unit is chunked and its batch loop starts
UnitBegin ==
  /\ ipc = "unit"
  /\ unitIdx <= Len(extractedData)
  /\ nChunks' = Len(splitIntoChunks(UnitText(extractedData[unitIdx]),
                                    DefaultChunkSize, DefaultOverlap))
  /\ batchI' = 0
  /\ delays' = 0
  /\ unitInserted' = {}
  /\ ipc' = "loop"
  /\ UNCHANGED <<chunkVars, restVars, file, extractedData, unitIdx, tasks, totalChunks,
                 error, embedStarted, insertCount, insertedIds,
                 inFlight, insertDone>>

\* lines 184-188: every callback of the batch runs up to its embedding call
BatchBegin ==
  /\ ipc = "loop"
  /\ batchI < nChunks
  /\ tasks' = [k \in 1..BatchLen(batchI, nChunks) |-> "embedding"]
  /\ embedStarted' = embedStarted + BatchLen(batchI, nChunks)
  /\ ipc' = "await"
  /\ inFlight' = inFlight \cup
       {Call("embedding", k) : k \in 1..BatchLen(batchI, nChunks)}
  /\ UNCHANGED <<chunkVars, restVars, file, extractedData, unitIdx, nChunks, batchI,
                 totalChunks, error, delays, insertCount, insertedIds,
                 unitInserted,
                 insertDone>>

\* what the awaiting indexDocument does when callback k has just failed:
\* the await of line 187 throws and the call rejects with that failure
Settle(ts, kind, k) ==
  IF ipc = "await" /\ PromiseAll(ts) = "rejected"
  THEN /\ ipc' = "rejected"
       /\ error' = <<kind, unitIdx, ChunkIndex(batchI, k - 1)>>
  ELSE UNCHANGED <<ipc, error>>

\* lines 188-198: the embedding of callback k arrives and it calls insertItem
EmbedResolve(k) ==
  /\ k \in DOMAIN tasks
  /\ tasks[k] = "embedding"
  /\ tasks' = [tasks EXCEPT ![k] = "inserting"]
  /\ insertCount' = insertCount + 1
  /\ insertedIds' = insertedIds \cup
       {ChunkId(extractedData[unitIdx], ChunkIndex(batchI, k - 1))}
  /\ unitInserted' = unitInserted \cup {<<batchI, ChunkIndex(batchI, k - 1)>>}
  /\ inFlight' = (inFlight \ {Call("embedding", k)}) \cup {Call("insert", k)}
  /\ UNCHANGED <<chunkVars, restVars, file, ipc, extractedData, unitIdx, nChunks, batchI,
                 totalChunks, error, delays, embedStarted,
                 insertDone>>

\* lines 151-153: the embedding call of callback k fails
EmbedReject(k) ==
  /\ k \in DOMAIN tasks
  /\ tasks[k] = "embedding"
  /\ tasks' = [tasks EXCEPT ![k] = "embFailed"]
  /\ Settle(tasks', "embedding", k)
  /\ inFlight' = inFlight \ {Call("embedding", k)}
  /\ UNCHANGED <<chunkVars, restVars, file, extractedData, unitIdx, nChunks, batchI,
                 totalChunks, delays, embedStarted, insertCount, insertedIds,
                 unitInserted,
                 insertDone>>

\* line 198: the insertItem of callback k completes
InsertResolve(k) ==
  /\ k \in DOMAIN tasks
  /\ tasks[k] = "inserting"
  /\ tasks' = [tasks EXCEPT ![k] = "done"]
  /\ inFlight' = inFlight \ {Call("insert", k)}
  /\ insertDone' = insertDone \cup {<<unitIdx, ChunkIndex(batchI, k - 1)>>}
  /\ UNCHANGED <<chunkVars, restVars, file, ipc, extractedData, unitIdx, nChunks, batchI,
                 totalChunks, error, delays, embedStarted, insertCount,
                 insertedIds, unitInserted>>

\* line 198: the insertItem of callback k fails
InsertReject(k) ==
  /\ k \in DOMAIN tasks
  /\ tasks[k] = "inserting"
  /\ tasks' = [tasks EXCEPT ![k] = "insFailed"]
  /\ Settle(tasks', "insert", k)
  /\ inFlight' = inFlight \ {Call("insert", k)}
  /\ UNCHANGED <<chunkVars, restVars, file, extractedData, unitIdx, nChunks, batchI,
                 totalChunks, delays, embedStarted, insertCount, insertedIds,
                 unitInserted,
                 insertDone>>

\* lines 217-222: the batch is complete; the timer is started when another
\* batch follows
BatchEnd ==
  /\ ipc = "await"
  /\ PromiseAll(tasks) = "fulfilled"
  /\ tasks' = <<>>
  /\ IF MoreBatches(batchI, nChunks)
     THEN /\ ipc' = "delay"
          /\ delays' = delays + 1
          /\ UNCHANGED batchI
     ELSE /\ ipc' = "loop"
          /\ batchI' = batchI + BatchSize
          /\ UNCHANGED delays
  /\ UNCHANGED <<chunkVars, restVars, file, extractedData, unitIdx, nChunks, totalChunks,
                 error, embedStarted, insertCount, insertedIds, unitInserted,
                 inFlight, insertDone>>

\* line 221 and the increment of line 184: the timer fires
DelayDone ==
  /\ ipc = "delay"
  /\ batchI' = batchI + BatchSize
  /\ ipc' = "loop"
  /\ UNCHANGED <<chunkVars, restVars, file, extractedData, unitIdx, nChunks, tasks,
                 totalChunks, error, delays, embedStarted, insertCount,
                 insertedIds, unitInserted,
                 inFlight, insertDone>>

\* exit of the batch loop and line 225
UnitEnd ==
  /\ ipc = "loop"
  /\ ~(batchI < nChunks)
  /\ totalChunks' = Accumulate(totalChunks, nChunks)
  /\ unitIdx' = unitIdx + 1
  /\ ipc' = "unit"
  /\ UNCHANGED <<chunkVars, restVars, file, extractedData, nChunks, batchI, tasks, error,
                 delays, embedStarted, insertCount, insertedIds, unitInserted,
                 inFlight, insertDone>>

\* line 232
IndexReturn ==
  /\ ipc = "unit"
  /\ unitIdx > Len(extractedData)
  /\ ipc' = "resolved"
  /\ UNCHANGED <<chunkVars, restVars, file, extractedData, unitIdx, nChunks, batchI,
                 tasks, totalChunks, error, delays, embedStarted, insertCount,
                 insertedIds, unitInserted,
                 inFlight, insertDone>>

IndexNext ==
  \/ ExtractReject
  \/ IndexBegin
  \/ UnitBegin
  \/ BatchBegin
  \/ \E k \in 1..BatchSize : EmbedResolve(k)
  \/ \E k \in 1..BatchSize : EmbedReject(k)
  \/ \E k \in 1..BatchSize : InsertResolve(k)
  \/ \E k \in 1..BatchSize : InsertReject(k)
  \/ BatchEnd
  \/ DelayDone
  \/ UnitEnd
  \/ IndexReturn

IndexSpec == IndexInit /\ [][IndexNext]_vars

\* the steps indexDocument takes by itself, between its awaits
IndexStep ==
  BatchBegin \/ BatchEnd \/ UnitEnd \/ IndexReturn

\* the for-of loop of line 168 has a unit to chunk: UnitBegin is enabled
UnitPending == ipc = "unit" /\ unitIdx <= Len(extractedData)

\* a call indexDocument awaits completes: the extractor returns or
\* throws, an embedding call or an insertItem call resolves or rejects
CallCompletes ==
  \/ IndexBegin
  \/ ExtractReject
  \/ \E k \in 1..BatchSize :
       \/ EmbedResolve(k)
       \/ EmbedReject(k)
       \/ InsertResolve(k)
       \/ InsertReject(k)

\* indexDocument when the calls it awaits complete: while a call is
\* pending one of the pending calls completes, every timer fires, and the
\* event loop runs the continuation that is ready.  The last conjunct is
\* WF_vars(UnitBegin) with ENABLED spelled out: the synchronous chunking
\* of a unit returns, and UnitBegin always leaves the state it is enabled
\* in.
IndexFairness ==
  /\ WF_vars(CallCompletes)
  /\ WF_vars(DelayDone)
  /\ WF_vars(IndexStep)
  /\ []<>~UnitPending

\* the calls checked for termination: every text file, and the
\* workbooks whose cells hold at most one word each
FairFiles ==
  {f \in Files :
     \A k \in DOMAIN f.workbook :
       \A r \in DOMAIN f.workbook[k] :
         \A c \in DOMAIN f.workbook[k][r] : f.workbook[k][r][c] <= 1}

IndexFairInit == IndexInit /\ file \in FairFiles

IndexFairSpec == IndexFairInit /\ [][IndexNext]_vars /\ IndexFairness

\* -------------------------------------------------------- index claims
\* C7: within one indexDocument run of one file no two insertItem calls use
\* the same id.
C7_UniqueIds == Cardinality(insertedIds) = insertCount

\* a finished run over two rows of one sheet, one of them long enough for
\* a second batch
C7_Witness ==
  /\ ipc = "resolved"
  /\ Len(extractedData) >= 2
  /\ extractedData[1].sheet = extractedData[2].sheet
  /\ extractedData[1].sheet # NoSheet
  /\ insertCount >= 7

AnyFailed == \E k \in DOMAIN tasks : tasks[k] \in Failed

InFlight == \E k \in DOMAIN tasks : tasks[k] \in {"embedding", "inserting"}

\* the failure named by error: a failed callback of the current batch
ErrorIsAFailure ==
  /\ Len(error) = 3
  /\ error[2] = unitIdx
  /\ \E k \in DOMAIN tasks :
       /\ error[3] = batchI + (k - 1)
       /\ tasks[k] = IF error[1] = "embedding" THEN "embFailed" ELSE "insFailed"

\* C8: once an embedding call or an insertItem call has failed,
\* indexDocument has rejected with that failure; from then on no embedding
\* call and no insert is started for a later batch or a later unit, and no
\* failed call is made again.
C8_AbortOnFailure ==
  /\ [](AnyFailed => (ipc = "rejected" /\ ErrorIsAFailure))
  /\ [](ipc = "rejected" => (AnyFailed \/ error = <<"extract", 0, 0>>))
  /\ [][AnyFailed =>
          /\ unitIdx' = unitIdx
          /\ batchI' = batchI
          /\ nChunks' = nChunks
          /\ embedStarted' = embedStarted
          /\ delays' = delays
          /\ error' = error
          /\ ipc' = ipc
          /\ DOMAIN tasks' = DOMAIN tasks
          /\ \A k \in DOMAIN tasks :
               /\ tasks[k] \in Failed \cup {"done"} => tasks'[k] = tasks[k]
               /\ tasks'[k] = "embedding" => tasks[k] = "embedding"]_vars
  /\ [][(~AnyFailed /\ AnyFailed') =>
          \E k \in DOMAIN tasks :
            /\ tasks[k] \notin Failed
            /\ tasks'[k] \in Failed
            /\ error' = <<IF tasks'[k] = "embFailed" THEN "embedding" ELSE "insert",
                          unitIdx, batchI + (k - 1)>>]_vars

\* a rejected run whose callbacks have all settled although a batch or a
\* unit was still to come
C8_Witness ==
  /\ ipc = "rejected"
  /\ ~InFlight
  /\ \E k \in DOMAIN tasks : tasks[k] = "done"
  /\ MoreBatches(batchI, nChunks) \/ unitIdx < Len(extractedData)

\* the batch loop of the current unit has run to its end
UnitFinished == ipc = "loop" /\ ~(batchI < nChunks)

\* C9 as stated: a unit of N chunks takes exactly ceil(N/5) - 1 delays.
C9_DelayCount ==
  UnitFinished => delays = CeilDiv(nChunks, BatchSize) - 1

\* C9 amended: a unit of N >= 1 chunks whose batches all complete takes
\* exactly ceil(N/5) - 1 delays, one after every batch but the last; a
\* unit of no chunks takes none.
C9_DelayCountAmended ==
  /\ UnitFinished =>
       delays = IF nChunks = 0 THEN 0 ELSE CeilDiv(nChunks, BatchSize) - 1
  /\ (ipc \in {"await", "delay"} \/ (ipc = "loop" /\ batchI < nChunks)) =>
       delays = (batchI \div BatchSize) + (IF ipc = "delay" THEN 1 ELSE 0)
  /\ ipc = "delay" => batchI + BatchSize < nChunks

\* a unit of two batches has run to its end
C9_Witness ==
  /\ UnitFinished
  /\ nChunks > BatchSize
  /\ delays = 1

\* callback k calls insertItem in this step
InsertCalled(k) ==
  /\ k \in DOMAIN tasks
  /\ tasks[k] = "embedding"
  /\ k \in DOMAIN tasks'
  /\ tasks'[k] = "inserting"

UnitChunkCounts ==
  [k \in 1..Len(extractedData) |->
     Len(splitIntoChunks(UnitText(extractedData[k]),
                         DefaultChunkSize, DefaultOverlap))]

\* C11: when indexDocument resolves, chunksCreated is the sum over all
\* extracted units of the number of chunks splitIntoChunks returned for
\* the unit, and it is the number of insertItem calls that completed
\* during the call.
C11_ChunksCreated ==
  ipc = "resolved" =>
    /\ totalChunks = SumSeq(UnitChunkCounts)
    /\ totalChunks = Cardinality(insertDone)
    /\ totalChunks = insertCount

\* a resolved run over two units with chunks, one of them of two batches
C11_Witness ==
  /\ ipc = "resolved"
  /\ \E a, b \in DOMAIN extractedData :
       /\ a # b
       /\ UnitChunkCounts[a] > BatchSize
       /\ UnitChunkCounts[b] > 0
  /\ totalChunks >= 7

EmbeddingsInFlight == {c \in inFlight : c[1] = "embedding"}

C20_SequentialBatches ==
  [][(embedStarted' > embedStarted /\ batchI > 0) =>
       /\ inFlight = {}
       /\ ~AnyFailed
       /\ \A c \in 0..(batchI - 1) : <<unitIdx, c>> \in insertDone
       /\ ipc = "loop"
       /\ delays = batchI \div BatchSize]_vars

\* the embedding call of a second batch is in flight after one delay
C20_Witness ==
  /\ batchI = BatchSize
  /\ delays = 1
  /\ EmbeddingsInFlight # {}

\* ================================================================ search
MaxStore == 3
MaxTopK == 2

\* the factor and the floor of the count asked of queryItems, line 259
CandidateFactor == 3
MinCandidates == 50

\* a query word takes part in text matching when it is longer than this,
\* line 280
MinWordLength == 2

\* topK of analyzeSearch, line 361
AnalyzeTopK == 20

\* "user authentication"
QueryUserAuth ==
  <<"u", "s", "e", "r", " ", "a", "u", "t", "h", "e", "n", "t", "i", "c",
    "a", "t", "i", "o", "n">>

\* "ab abc"
QueryShortWord ==
  <<"a", "b", " ", "a", "b", "c">>

\* " abc": a query that starts with whitespace
QueryLeadingSpace ==
  <<" ", "a", "b", "c">>

\* "ABC abc"
QueryUpperCase ==
  <<"A", "B", "C", " ", "a", "b", "c">>

\* "user login authentication flow"
TextUserLogin ==
  <<"u", "s", "e", "r", " ", "l", "o", "g", "i", "n", " ", "a", "u", "t",
    "h", "e", "n", "t", "i", "c", "a", "t", "i", "o", "n", " ", "f", "l",
    "o", "w">>

\* "xAbc user"
TextAbcUser ==
  <<"x", "A", "b", "c", " ", "u", "s", "e", "r">>

\* "ab"
TextAb ==
  <<"a", "b">>

\* " ": a query of whitespace only
QueryBlank == <<" ">>

\* the queries searched for; the last one is the empty query
Queries ==
  {QueryUserAuth, QueryShortWord, QueryLeadingSpace, QueryUpperCase,
   QueryBlank, <<>>}

\* what the store can hold: the similarity score of an item for the query,
\* in hundredths (a cosine similarity, so it can be negative), and
\* metadata.text
StoreItems ==
  { [score |-> 80, text |-> TextAb],
    [score |-> 40, text |-> TextUserLogin],
    [score |-> 40, text |-> TextAbcUser],
    [score |-> -10, text |-> TextUserLogin],
    [score |-> 80, text |-> TextAbcUser] }

\* the stores: the items in the order in which queryItems hands them out
\* (the code relies on no property of that order)
Stores == UNION {[1..n -> StoreItems] : n \in 0..MaxStore}

\* the topK arguments: parseInt of the -n option (cli.js line 315) can be
\* any integer
TopKs == (-1..MaxTopK) \cup {AnalyzeTopK}

\* the minScore arguments, in hundredths
MinScores == {-20, 0, 30}

\* String.prototype.toLowerCase on the letters that occur
Lower(c) ==
  IF c = "A" THEN "a" ELSE IF c = "B" THEN "b" ELSE IF c = "C" THEN "c" ELSE c

ToLowerCase(s) == [k \in DOMAIN s |-> Lower(s[k])]

\* String.prototype.includes
Includes(t, w) ==
  \E o \in 0..(Len(t) - Len(w)) : SubSeq(t, o + 1, o + Len(w)) = w

CandidateCountTopK(k) == k

\* the count of line 259
CandidateCount(k) == Max(k * CandidateFactor, MinCandidates)

DenominatorLong(q) ==
  Len(SelectSeq(Split(q), LAMBDA w : Len(w) > MinWordLength))

\* query.split(/\s+/).length of line 303
Denominator(q) == Len(Split(q))

\* index.queryItems(vector, k): the k best ranked items, each with its
\* score; chunkIndex tells the items of the model apart
QueryItems(store, k) ==
  [j \in 1..Min(k, Len(store)) |->
     [chunkIndex |-> j, score |-> store[j].score, text |-> store[j].text]]

WordMatchesAnyLength(word, t) == Includes(t, word)

\* the test of line 280
WordMatches(word, t) == Len(word) > MinWordLength /\ Includes(t, word)

\* lines 276-284: the lower-cased query words pushed to textMatches
TextMatches(q, t) ==
  SelectSeq(Split(ToLowerCase(q)), LAMBDA w : WordMatches(w, ToLowerCase(t)))

\* lines 266-315: the processed result of one candidate; textMatchScore is
\* the quotient of line 303 kept as <<numerator, denominator>>
Process(c, q, itm) ==
  LET base == [chunkIndex |-> c.chunkIndex, score |-> c.score, text |-> c.text,
               relevancePercentage |-> c.score]
  IN  IF itm
      THEN [chunkIndex |-> base.chunkIndex, score |-> base.score,
            text |-> base.text, relevancePercentage |-> base.relevancePercentage,
            textMatches |-> TextMatches(q, c.text),
            hasDirectMatch |-> Len(TextMatches(q, c.text)) > 0,
            textMatchScore |-> <<Len(TextMatches(q, c.text)), Denominator(q)>>]
      ELSE base

FilterAlways(rs, ms) == SelectSeq(rs, LAMBDA r : r.score >= ms)

\* lines 318-324
Filter(rs, ms) ==
  IF ms > 0 THEN SelectSeq(rs, LAMBDA r : r.score >= ms) ELSE rs

\* a.hasDirectMatch as a condition; undefined counts as false
HasDirect(r) == "hasDirectMatch" \in DOMAIN r /\ r.hasDirectMatch

\* b.textMatchScore - a.textMatchScore, scaled by both denominators;
\* 0 when both are undefined
MatchScoreDiff(a, b) ==
  IF "textMatchScore" \in DOMAIN a /\ "textMatchScore" \in DOMAIN b
  THEN b.textMatchScore[1] * a.textMatchScore[2]
         - a.textMatchScore[1] * b.textMatchScore[2]
  ELSE 0

CompareScoreOnly(a, b) == b.score - a.score

\* the comparator of lines 328-340: negative when a sorts before b
Compare(a, b) ==
  IF HasDirect(a) /\ ~HasDirect(b) THEN -1
  ELSE IF ~HasDirect(a) /\ HasDirect(b) THEN 1
  ELSE IF MatchScoreDiff(a, b) # 0 THEN MatchScoreDiff(a, b)
  ELSE b.score - a.score

\* x put into the sorted s behind every element that does not sort after it
RECURSIVE InsertSorted(_, _)
InsertSorted(s, x) ==
  IF s = <<>> THEN <<x>>
  ELSE IF Compare(s[Len(s)], x) <= 0 THEN Append(s, x)
  ELSE Append(InsertSorted(SubSeq(s, 1, Len(s) - 1), x), s[Len(s)])

\* Array.prototype.sort with the comparator of the code (a stable sort)
RECURSIVE Sort(_)
Sort(rs) ==
  IF rs = <<>> THEN <<>>
  ELSE InsertSorted(Sort(SubSeq(rs, 1, Len(rs) - 1)), rs[Len(rs)])

ShouldSortAlways(itm) == TRUE

\* the test of line 327
ShouldSort(itm) == itm

TruncateNone(rs, k) == rs

\* filteredResults.slice(0, topK) of line 343
Truncate(rs, k) == Slice(rs, 0, k)

\* lines 266-356: what search returns for the candidates of the store
FinalResults(cands, q, k, itm, ms) ==
  LET processedResults == [j \in DOMAIN cands |-> Process(cands[j], q, itm)]
      filteredResults == Filter(processedResults, ms)
      sorted == IF ShouldSort(itm) THEN Sort(filteredResults) ELSE filteredResults
  IN  Truncate(sorted, k)

\* a search call about to run, for any query, any topK and any options
SearchInit ==
  /\ ChunkIdle
  /\ IndexIdle
  /\ EngineIdle
  /\ CliIdle
  /\ query \in Queries
  /\ topK \in TopKs
  /\ includeTextMatches \in BOOLEAN
  /\ minScore \in MinScores
  /\ storeRanked \in Stores
  /\ spc = "call"
  /\ queryCalls = <<>>
  /\ candidates = <<>>
  /\ results = <<>>

\* lines 237-251: the query is sent to be embedded
SearchBegin ==
  /\ spc = "call"
  /\ spc' = "embedding"
  /\ UNCHANGED <<chunkVars, indexVars, engineVars, cliVars, query, topK,
                 includeTextMatches, minScore, storeRanked, queryCalls,
                 candidates, results>>

\* lines 151-153: the embedding call fails and search rejects
SearchEmbedReject ==
  /\ spc = "embedding"
  /\ spc' = "rejected"
  /\ UNCHANGED <<chunkVars, indexVars, engineVars, cliVars, query, topK,
                 includeTextMatches, minScore, storeRanked, queryCalls,
                 candidates, results>>

\* line 259: the embedding arrives and the store is queried
SearchQuery ==
  /\ spc = "embedding"
  /\ queryCalls' = Append(queryCalls, CandidateCount(topK))
  /\ spc' = "querying"
  /\ UNCHANGED <<chunkVars, indexVars, engineVars, cliVars, query, topK,
                 includeTextMatches, minScore, storeRanked, candidates, results>>

\* line 259: queryItems fails and search rejects
SearchQueryReject ==
  /\ spc = "querying"
  /\ spc' = "rejected"
  /\ UNCHANGED <<chunkVars, indexVars, engineVars, cliVars, query, topK,
                 includeTextMatches, minScore, storeRanked, queryCalls,
                 candidates, results>>

\* lines 259-356: the candidates arrive, are processed and returned
SearchReturn ==
  /\ spc = "querying"
  /\ candidates' = QueryItems(storeRanked, queryCalls[Len(queryCalls)])
  /\ results' = FinalResults(candidates', query, topK, includeTextMatches, minScore)
  /\ spc' = "resolved"
  /\ UNCHANGED <<chunkVars, indexVars, engineVars, cliVars, query, topK,
                 includeTextMatches, minScore, storeRanked, queryCalls>>

SearchNext ==
  \/ SearchBegin
  \/ SearchEmbedReject
  \/ SearchQuery
  \/ SearchQueryReject
  \/ SearchReturn

SearchSpec == SearchInit /\ [][SearchNext]_vars

\* ---------------------------------------------------------- search claims
\* C12 as stated: search returns at most topK results, for every topK,
\* every combination of options and every store content.
C12_AtMostTopK == spc = "resolved" => Len(results) <= topK

\* C12 amended: search returns at most topK results for every topK >= 0,
\* every combination of options and every store content.
C12_AtMostTopKAmended ==
  (spc = "resolved" /\ topK >= 0) => Len(results) <= topK

\* three candidates pass the filter and one is returned
C12_Witness ==
  /\ spc = "resolved"
  /\ topK = 1
  /\ minScore <= 0
  /\ Len(candidates) = 3
  /\ Len(results) = 1

\* C13: no result that search returns has a score below minScore, for every
\* minScore (the default 0, zero and negative values included) and for
\* stores whose scores can be negative.
C13_MinScoreFloor ==
  spc = "resolved" => \A j \in DOMAIN results : results[j].score >= minScore

\* a has a greater textMatchScore than b
MatchScoreGreater(a, b) ==
  a.textMatchScore[1] * b.textMatchScore[2]
    > b.textMatchScore[1] * a.textMatchScore[2]

\* a does not come after b under the key
\* (hasDirectMatch desc, textMatchScore desc, score desc)
KeyNotAfter(a, b) ==
  IF a.hasDirectMatch # b.hasDirectMatch THEN a.hasDirectMatch
  ELSE IF MatchScoreGreater(a, b) THEN TRUE
  ELSE IF MatchScoreGreater(b, a) THEN FALSE
  ELSE a.score >= b.score

\* the candidates that passed the filter of lines 318-324 and were cut off
Truncated ==
  {c \in DOMAIN candidates :
     /\ minScore > 0 => candidates[c].score >= minScore
     /\ \A j \in DOMAIN results : results[j].chunkIndex # candidates[c].chunkIndex}

\* C14: with includeTextMatches the results are ordered by the key
\* (hasDirectMatch desc, textMatchScore desc, score desc): no result without
\* a direct match comes before one with a direct match, and no candidate
\* that passed the filter and was cut off comes before a returned result
\* under that key.
C14_HybridOrder ==
  (spc = "resolved" /\ includeTextMatches) =>
    /\ \A j, k \in DOMAIN results :
         j < k => /\ KeyNotAfter(results[j], results[k])
                  /\ results[k].hasDirectMatch => results[j].hasDirectMatch
    /\ \A c \in Truncated : \A j \in DOMAIN results :
         KeyNotAfter(results[j], Process(candidates[c], query, TRUE))

\* the third candidate of the store is returned first and a candidate that
\* passed the filter is cut off
C14_Witness ==
  /\ spc = "resolved"
  /\ includeTextMatches
  /\ Len(candidates) = 3
  /\ Len(results) = 2
  /\ results[1].chunkIndex = 3
  /\ results[1].hasDirectMatch
  /\ ~results[2].hasDirectMatch
  /\ Truncated # {}

\* C15: without includeTextMatches the results are a subsequence of the
\* candidates in the order in which queryItems returned them, for every
\* minScore.
C15_StoreOrderKept ==
  (spc = "resolved" /\ ~includeTextMatches) =>
    /\ \A j, k \in DOMAIN results :
         j < k => results[j].chunkIndex < results[k].chunkIndex
    /\ \A j \in DOMAIN results :
         \E c \in DOMAIN candidates :
           /\ candidates[c].chunkIndex = results[j].chunkIndex
           /\ candidates[c].score = results[j].score
           /\ candidates[c].text = results[j].text

\* a candidate is filtered out and the two returned are not in the order of
\* their scores
C15_Witness ==
  /\ spc = "resolved"
  /\ ~includeTextMatches
  /\ minScore > 0
  /\ Len(candidates) = 3
  /\ Len(results) = 2
  /\ results[1].score < results[2].score

\* the query tokens of `toks` that are longer than 2 characters and occur in
\* the text t without regard to case
MatchedTokens(toks, t) ==
  SelectSeq(toks, LAMBDA w : /\ Len(w) > MinWordLength
                             /\ Includes(ToLowerCase(t), ToLowerCase(w)))

WordUser == SubSeq(QueryUserAuth, 1, 4)
WordAuthentication == SubSeq(QueryUserAuth, 6, 19)

MaxItems == 4

\* metadata.fileName of the items a store can hold
FileNames == {"a.txt", "b.txt"}

\* this.indexPath
IndexPath == "index"

\* the message of a createIndex failure that is not about an existing index
IoError == "EIO"

\* what createIndex can do, line 26: it creates an absent index, reports an
\* existing one, or fails
CreateOutcomes(exists) ==
  IF exists THEN {"already exists", IoError} ELSE {"ok", IoError}

ToleratedNone(msg) == FALSE

ToleratedAll(msg) == TRUE

\* the test of line 30
Tolerated(msg) == msg = "already exists"

\* [...new Set(...)] of line 466: the distinct file names in first-seen order
RECURSIVE Unique(_)
Unique(q) ==
  IF q = <<>> THEN <<>>
  ELSE LET front == Unique(SubSeq(q, 1, Len(q) - 1))
       IN  IF \E k \in DOMAIN front : front[k] = q[Len(q)]
           THEN front ELSE Append(front, q[Len(q)])

\* lines 466-473
StatsOf(items) ==
  [totalChunks |-> Len(items), totalDocuments |-> Len(Unique(items)),
   documents |-> Unique(items), indexPath |-> IndexPath]

\* lines 476-481
ZeroStats ==
  [totalChunks |-> 0, totalDocuments |-> 0, documents |-> <<>>,
   indexPath |-> IndexPath]

NeedsCreateAlways(flag) == TRUE

\* the test of line 24
NeedsCreate(flag) == ~flag

\* the engine calls that are made one after the other
Ops ==
  {"initialize", "indexDocument", "search", "getStats", "clearIndex",
   "restoreIndex"}

\* what deleteIndex can do, line 488: it removes an index, misses an absent
\* one, or fails
DeleteOutcomes(exists) ==
  IF exists THEN {"ok", IoError} ELSE {"does not exist", IoError}

SwallowedAll(msg) == TRUE

\* the test of line 492
Swallowed(msg) == msg = "does not exist"

AfterDeleteKeep(flag) == flag

\* line 489: isInitialized after deleteIndex succeeded
AfterDelete(flag) == FALSE

\* what is at backupPath: nothing, a directory that holds no index, or an
\* index
Backups ==
  {[exists |-> FALSE, index |-> FALSE, files |-> <<>>],
   [exists |-> TRUE, index |-> FALSE, files |-> <<>>],
   [exists |-> TRUE, index |-> TRUE, files |-> <<>>],
   [exists |-> TRUE, index |-> TRUE, files |-> <<"a.txt">>]}

\* what fs.copy can do, line 523
CopyOutcomes(b) == IF b.exists THEN {"ok", IoError} ELSE {IoError}

\* lines 531-533: restoreIndex wraps what it throws
Wrap(o, msg) == IF o = "restoreIndex" THEN "Restore failed: " \o msg ELSE msg

NoCall == [op |-> "none", ok |-> TRUE]

Logged(call, outcome) ==
  Append(storeLog, [call |-> call, outcome |-> outcome])

\* a new engine beside a store that is absent, empty or filled
EngineInit ==
  /\ ChunkIdle
  /\ IndexIdle
  /\ SearchIdle
  /\ CliIdle
  /\ isInitialized = FALSE
  /\ indexExists \in BOOLEAN
  /\ storeFiles \in UNION {[1..n -> FileNames] : n \in 0..MaxItems}
  /\ ~indexExists => storeFiles = <<>>
  /\ op = "none"
  /\ epc = "idle"
  /\ atCall = <<>>
  /\ stats = <<>>
  /\ thrown = ""
  /\ storeLog = <<>>
  /\ prev = NoCall
  /\ backup \in Backups

\* where an engine call starts: clearIndex (line 488) and restoreIndex
\* (line 520) at deleteIndex, the others at initialize
StartPc(o) ==
  IF o \in {"clearIndex", "restoreIndex"} THEN "delete" ELSE "init"

\* the engine is called
EngineCall(o) ==
  /\ epc = "idle"
  /\ op' = o
  /\ epc' = StartPc(o)
  /\ atCall' = [exists |-> indexExists, files |-> storeFiles,
                ready |-> isInitialized]
  /\ stats' = <<>>
  /\ thrown' = ""
  /\ storeLog' = <<>>
  /\ UNCHANGED <<chunkVars, indexVars, searchVars, cliVars, isInitialized,
                 indexExists, storeFiles, prev, backup>>

\* line 461: getStats is called
GetStatsCall == EngineCall("getStats")

\* lines 23, 159, 237, 485, 517: another method is called
OtherCall == \E o \in Ops \ {"getStats"} : EngineCall(o)

\* line 24: initialize has nothing to do
InitializeSkip ==
  /\ epc = "init"
  /\ ~NeedsCreate(isInitialized)
  /\ epc' = "body"
  /\ UNCHANGED <<chunkVars, indexVars, searchVars, cliVars, isInitialized,
                 indexExists, storeFiles, op, atCall, stats, thrown,
                 storeLog, prev, backup>>

\* lines 25-35: createIndex is called and ends with `outcome`
CreateIndex(outcome) ==
  /\ epc = "init"
  /\ NeedsCreate(isInitialized)
  /\ outcome \in CreateOutcomes(indexExists)
  /\ storeLog' = Logged("createIndex", outcome)
  /\ IF outcome = "ok"
     THEN /\ indexExists' = TRUE
          /\ storeFiles' = <<>>
          /\ isInitialized' = TRUE
          /\ epc' = "body"
          /\ UNCHANGED thrown
     ELSE IF Tolerated(outcome)
     THEN /\ isInitialized' = TRUE
          /\ epc' = "body"
          /\ UNCHANGED <<indexExists, storeFiles, thrown>>
     ELSE /\ thrown' = Wrap(op, outcome)
          /\ epc' = "threw"
          /\ UNCHANGED <<indexExists, storeFiles, isInitialized>>
  /\ UNCHANGED <<chunkVars, indexVars, searchVars, cliVars, op, atCall, stats,
                 prev, backup>>

\* line 37: initialize returns
InitializeReturn ==
  /\ op = "initialize"
  /\ epc = "body"
  /\ epc' = "returned"
  /\ UNCHANGED <<chunkVars, indexVars, searchVars, cliVars, isInitialized,
                 indexExists, storeFiles, op, atCall, stats, thrown,
                 storeLog, prev, backup>>

\* lines 165-188 and 232: indexDocument ends before it inserts anything;
\* the file has no chunk, or extraction or an embedding failed
IndexNoInsert(ok) ==
  /\ op = "indexDocument"
  /\ epc = "body"
  /\ epc' = IF ok THEN "returned" ELSE "threw"
  /\ thrown' = IF ok THEN thrown ELSE IoError
  /\ UNCHANGED <<chunkVars, indexVars, searchVars, cliVars, isInitialized,
                 indexExists, storeFiles, op, atCall, stats, storeLog, prev,
                 backup>>

\* lines 198-216: insertItem stores a chunk of file f
InsertItemOk(f) ==
  /\ op = "indexDocument"
  /\ epc = "body"
  /\ indexExists
  /\ Len(storeFiles) < MaxItems
  /\ storeFiles' = Append(storeFiles, f)
  /\ storeLog' = Logged("insertItem", "ok")
  /\ epc' = "returned"
  /\ UNCHANGED <<chunkVars, indexVars, searchVars, cliVars, isInitialized,
                 indexExists, op, atCall, stats, thrown, prev, backup>>

\* lines 198-216: insertItem fails
InsertItemFail ==
  /\ op = "indexDocument"
  /\ epc = "body"
  /\ storeLog' = Logged("insertItem", IoError)
  /\ thrown' = IoError
  /\ epc' = "threw"
  /\ UNCHANGED <<chunkVars, indexVars, searchVars, cliVars, isInitialized,
                 indexExists, storeFiles, op, atCall, stats, prev, backup>>

\* line 251: the embedding of the query fails
SearchNoQuery ==
  /\ op = "search"
  /\ epc = "body"
  /\ thrown' = IoError
  /\ epc' = "threw"
  /\ UNCHANGED <<chunkVars, indexVars, searchVars, cliVars, isInitialized,
                 indexExists, storeFiles, op, atCall, stats, storeLog, prev,
                 backup>>

\* line 259: queryItems ends with `outcome`
QueryItemsCall(outcome) ==
  /\ op = "search"
  /\ epc = "body"
  /\ outcome \in (IF indexExists THEN {"ok", IoError} ELSE {IoError})
  /\ storeLog' = Logged("queryItems", outcome)
  /\ thrown' = IF outcome = "ok" THEN thrown ELSE outcome
  /\ epc' = IF outcome = "ok" THEN "returned" ELSE "threw"
  /\ UNCHANGED <<chunkVars, indexVars, searchVars, cliVars, isInitialized,
                 indexExists, storeFiles, op, atCall, stats, prev, backup>>

\* lines 465-473: listItems returns the items; line 529 of restoreIndex
\* returns what getStats returns
ListItemsOk ==
  /\ op \in {"getStats", "restoreIndex"}
  /\ epc = "body"
  /\ indexExists
  /\ stats' = StatsOf(storeFiles)
  /\ storeLog' = Logged("listItems", "ok")
  /\ epc' = "returned"
  /\ UNCHANGED <<chunkVars, indexVars, searchVars, cliVars, isInitialized,
                 indexExists, storeFiles, op, atCall, thrown, prev, backup>>

\* lines 474-482: listItems fails (the index is gone or cannot be read)
ListItemsFail ==
  /\ op \in {"getStats", "restoreIndex"}
  /\ epc = "body"
  /\ stats' = ZeroStats
  /\ storeLog' = Logged("listItems", IoError)
  /\ epc' = "returned"
  /\ UNCHANGED <<chunkVars, indexVars, searchVars, cliVars, isInitialized,
                 indexExists, storeFiles, op, atCall, thrown, prev, backup>>

\* lines 487-495: deleteIndex is called and ends with `outcome`; clearIndex
\* returns after it, restoreIndex goes on to the copy of line 523
DeleteIndex(outcome) ==
  /\ epc = "delete"
  /\ outcome \in DeleteOutcomes(indexExists)
  /\ storeLog' = Logged("deleteIndex", outcome)
  /\ IF outcome = "ok"
     THEN /\ indexExists' = FALSE
          /\ storeFiles' = <<>>
          /\ isInitialized' = AfterDelete(isInitialized)
          /\ epc' = IF op = "clearIndex" THEN "returned" ELSE "copy"
          /\ UNCHANGED thrown
     ELSE IF Swallowed(outcome)
     THEN /\ epc' = IF op = "clearIndex" THEN "returned" ELSE "copy"
          /\ UNCHANGED <<indexExists, storeFiles, isInitialized, thrown>>
     ELSE /\ thrown' = Wrap(op, outcome)
          /\ epc' = "threw"
          /\ UNCHANGED <<indexExists, storeFiles, isInitialized>>
  /\ UNCHANGED <<chunkVars, indexVars, searchVars, cliVars, op, atCall, stats,
                 prev, backup>>

\* lines 523-526: fs.copy puts the backup at the index path, and
\* isInitialized is reset before initialize is called
CopyBackup(outcome) ==
  /\ op = "restoreIndex"
  /\ epc = "copy"
  /\ outcome \in CopyOutcomes(backup)
  /\ IF outcome = "ok"
     THEN /\ indexExists' = (indexExists \/ backup.index)
          /\ storeFiles' = IF backup.index THEN backup.files ELSE storeFiles
          /\ isInitialized' = FALSE
          /\ epc' = "init"
          /\ UNCHANGED thrown
     ELSE /\ thrown' = Wrap(op, outcome)
          /\ epc' = "threw"
          /\ UNCHANGED <<indexExists, storeFiles, isInitialized>>
  /\ UNCHANGED <<chunkVars, indexVars, searchVars, cliVars, op, atCall, stats,
                 storeLog, prev, backup>>

\* the caller has the result; the engine is free for the next call
OpDone ==
  /\ epc \in {"returned", "threw"}
  /\ epc' = "idle"
  /\ op' = "none"
  /\ prev' = [op |-> op, ok |-> epc = "returned"]
  /\ UNCHANGED <<chunkVars, indexVars, searchVars, cliVars, isInitialized,
                 indexExists, storeFiles, atCall, stats, thrown, storeLog,
                 backup>>

EngineNext ==
  \/ GetStatsCall
  \/ OtherCall
  \/ InitializeSkip
  \/ \E outcome \in {"ok", "already exists", IoError} : CreateIndex(outcome)
  \/ InitializeReturn
  \/ \E ok \in BOOLEAN : IndexNoInsert(ok)
  \/ \E f \in FileNames : InsertItemOk(f)
  \/ InsertItemFail
  \/ SearchNoQuery
  \/ \E outcome \in {"ok", IoError} : QueryItemsCall(outcome)
  \/ ListItemsOk
  \/ ListItemsFail
  \/ \E outcome \in {"ok", "does not exist", IoError} : DeleteIndex(outcome)
  \/ \E outcome \in {"ok", IoError} : CopyBackup(outcome)
  \/ OpDone

EngineSpec == EngineInit /\ [][EngineNext]_vars

\* --------------------------------------------------------- engine claims
\* getStats was called on an index that was absent or empty
EmptyOrAbsentAtCall ==
  /\ op = "getStats"
  /\ ~atCall.exists \/ atCall.files = <<>>

IsZeroStats(st) ==
  /\ st.totalChunks = 0
  /\ st.totalDocuments = 0
  /\ st.documents = <<>>

\* C17 as stated: getStats on an empty or an absent index returns
\* {totalChunks: 0, totalDocuments: 0, documents: []} and does not throw,
\* also when listItems fails.
C17_ZeroStats ==
  (EmptyOrAbsentAtCall /\ epc \in {"returned", "threw"}) =>
    (epc = "returned" /\ IsZeroStats(stats))

\* C17 amended: getStats on an empty or an absent index returns the zero
\* statistics, also when listItems fails, unless createIndex fails with an
\* error other than 'already exists'; that error getStats throws.
C17_ZeroStatsUnlessCreateFails ==
  (EmptyOrAbsentAtCall /\ epc \in {"returned", "threw"}) =>
    IF epc = "returned" THEN IsZeroStats(stats) ELSE thrown = IoError

\* getStats has returned for an index that was absent and that initialize
\* created
C17_Witness ==
  /\ EmptyOrAbsentAtCall
  /\ ~atCall.exists
  /\ indexExists
  /\ epc = "returned"
  /\ IsZeroStats(stats)

\* ========================================================= index command
MaxFiles == 2

\* the documents a directory tree can hold, each at the path dir/fileName:
\* an empty one, a short one, one of six chunks, and in a subdirectory a
\* second short one with the name of the first (the `**/*.ext` patterns of
\* a recursive scan, cli.js line 138).  path.basename of part_002 line 97
\* keeps the fileName of a path.
CliFileSet ==
  { [dir |-> "docs", fileName |-> "e.txt", ext |-> ".txt",
     content |-> [lead |-> 0, n |-> 0], workbook |-> <<>>],
    [dir |-> "docs", fileName |-> "f.txt", ext |-> ".txt",
     content |-> [lead |-> 0, n |-> 1], workbook |-> <<>>],
    [dir |-> "docs", fileName |-> "g.txt", ext |-> ".txt",
     content |-> [lead |-> 0, n |-> 2251], workbook |-> <<>>],
    [dir |-> "docs/old", fileName |-> "f.txt", ext |-> ".txt",
     content |-> [lead |-> 0, n |-> 1], workbook |-> <<>>] }

\* what findDocuments can return, cli.js lines 135-167: no file twice
\* (line 152)
FileLists ==
  {fl \in UNION {[1..n -> CliFileSet] : n \in 0..MaxFiles} :
     \A j, k \in DOMAIN fl : j # k => fl[j] # fl[k]}

\* the callbacks in flight of the call for file number ix, as they are left
\* behind when the call has rejected: how many are at their embedding call
\* and how many at their insertItem call
Leftover(ix, calls) ==
  [file |-> ix,
   emb |-> Cardinality({c \in calls : c[1] = "embedding"}),
   ins |-> Cardinality({c \in calls : c[1] = "insert"})]

AfterErrorStop(ix, n) == n + 1

\* i after the catch of cli.js lines 266-274: the loop goes on with the
\* next file
AfterError(ix, n) == ix + 1

\* an index command about to run over the files of a directory
CliInit ==
  /\ ChunkIdle
  /\ IndexIdle
  /\ SearchIdle
  /\ EngineIdle
  /\ files \in FileLists
  /\ dryRun \in BOOLEAN
  /\ proceed \in BOOLEAN
  /\ kpc = "start"
  /\ fileIdx = 0
  /\ successCount = 0
  /\ errorCount = 0
  /\ cliTotalChunks = 0
  /\ attempts = <<>>
  /\ outcomes = <<>>
  /\ orphans = {}

\* cli.js lines 186-242: the command returns when there is nothing to do,
\* for a dry run and when the prompt is declined; otherwise the counters
\* are set up (clearing the index, when asked for, touches none of them)
CliStart ==
  /\ kpc = "start"
  /\ IF Len(files) = 0 \/ dryRun \/ ~proceed
     THEN /\ kpc' = "returned"
          /\ UNCHANGED fileIdx
     ELSE /\ kpc' = "loop"
          /\ fileIdx' = 1
  /\ successCount' = 0
  /\ errorCount' = 0
  /\ cliTotalChunks' = 0
  /\ UNCHANGED <<chunkVars, indexVars, searchVars, engineVars, files, dryRun,
                 proceed, attempts, outcomes, orphans>>

\* cli.js lines 244-256: indexDocument is called for the next file
CliCallIndex ==
  /\ kpc = "loop"
  /\ fileIdx <= Len(files)
  /\ attempts' = Append(attempts, fileIdx)
  /\ kpc' = "await"
  /\ file' = files[fileIdx]
  /\ ipc' = "call"
  /\ extractedData' = <<>>
  /\ unitIdx' = 0
  /\ nChunks' = 0
  /\ batchI' = 0
  /\ tasks' = <<>>
  /\ totalChunks' = 0
  /\ error' = <<>>
  /\ delays' = 0
  /\ embedStarted' = 0
  /\ insertCount' = 0
  /\ insertedIds' = {}
  /\ unitInserted' = {}
  /\ inFlight' = {}
  /\ insertDone' = {}
  /\ UNCHANGED <<chunkVars, searchVars, engineVars, files, dryRun, proceed,
                 fileIdx, successCount, errorCount, cliTotalChunks, outcomes,
                 orphans>>

\* cli.js lines 257-265: the call resolved
CliSuccess ==
  /\ kpc = "await"
  /\ ipc = "resolved"
  /\ successCount' = successCount + 1
  /\ cliTotalChunks' = cliTotalChunks + totalChunks
  /\ outcomes' = Append(outcomes, [file |-> fileIdx, ok |-> TRUE,
                                   ids |-> insertedIds,
                                   chunksCreated |-> totalChunks])
  /\ fileIdx' = fileIdx + 1
  /\ kpc' = "loop"
  /\ ipc' = "idle"
  /\ UNCHANGED <<chunkVars, searchVars, engineVars, file, extractedData,
                 unitIdx, nChunks, batchI, tasks, totalChunks, error, delays,
                 embedStarted, insertCount, insertedIds, unitInserted,
                 inFlight, insertDone, files, dryRun, proceed, errorCount,
                 attempts, orphans>>

\* cli.js lines 266-274: the call rejected; the callbacks of its last batch
\* that are still in flight run on
CliFailure ==
  /\ kpc = "await"
  /\ ipc = "rejected"
  /\ errorCount' = errorCount + 1
  /\ outcomes' = Append(outcomes, [file |-> fileIdx, ok |-> FALSE,
                                   ids |-> insertedIds,
                                   chunksCreated |-> 0])
  /\ orphans' = IF inFlight = {} THEN orphans
                ELSE orphans \cup {Leftover(fileIdx, inFlight)}
  /\ tasks' = <<>>
  /\ inFlight' = {}
  /\ fileIdx' = AfterError(fileIdx, Len(files))
  /\ kpc' = "loop"
  /\ ipc' = "idle"
  /\ UNCHANGED <<chunkVars, searchVars, engineVars, file, extractedData,
                 unitIdx, nChunks, batchI, totalChunks, error, delays,
                 embedStarted, insertCount, insertedIds, unitInserted,
                 insertDone, files, dryRun, proceed, successCount,
                 cliTotalChunks, attempts>>

\* the orphans with o replaced by n, or without o when n has nothing in
\* flight
Replace(o, n) ==
  (orphans \ {o}) \cup (IF n.emb + n.ins = 0 THEN {} ELSE {n})

\* part_002 lines 188-198: the embedding of a left-over callback arrives
\* and the callback calls insertItem
OrphanEmbedResolve(o) ==
  /\ o \in orphans
  /\ o.emb > 0
  /\ orphans' = Replace(o, [o EXCEPT !.emb = o.emb - 1, !.ins = o.ins + 1])
  /\ UNCHANGED <<chunkVars, indexVars, searchVars, engineVars, files, dryRun,
                 proceed, kpc, fileIdx, successCount, errorCount,
                 cliTotalChunks, attempts, outcomes>>

\* part_002 lines 151-153: the embedding call of a left-over callback fails
OrphanEmbedReject(o) ==
  /\ o \in orphans
  /\ o.emb > 0
  /\ orphans' = Replace(o, [o EXCEPT !.emb = o.emb - 1])
  /\ UNCHANGED <<chunkVars, indexVars, searchVars, engineVars, files, dryRun,
                 proceed, kpc, fileIdx, successCount, errorCount,
                 cliTotalChunks, attempts, outcomes>>

\* part_002 line 198: the insertItem of a left-over callback completes or
\* fails
OrphanInsertSettle(o) ==
  /\ o \in orphans
  /\ o.ins > 0
  /\ orphans' = Replace(o, [o EXCEPT !.ins = o.ins - 1])
  /\ UNCHANGED <<chunkVars, indexVars, searchVars, engineVars, files, dryRun,
                 proceed, kpc, fileIdx, successCount, errorCount,
                 cliTotalChunks, attempts, outcomes>>

\* cli.js lines 277-284: the loop is over and the summary is printed
CliSummary ==
  /\ kpc = "loop"
  /\ ~(fileIdx <= Len(files))
  /\ kpc' = "summary"
  /\ UNCHANGED <<chunkVars, indexVars, searchVars, engineVars, files, dryRun,
                 proceed, fileIdx, successCount, errorCount, cliTotalChunks,
                 attempts, outcomes, orphans>>

CliNext ==
  \/ CliStart
  \/ CliCallIndex
  \/ IndexNext
  \/ CliSuccess
  \/ CliFailure
  \/ \E o \in orphans : OrphanEmbedResolve(o)
  \/ \E o \in orphans : OrphanEmbedReject(o)
  \/ \E o \in orphans : OrphanInsertSettle(o)
  \/ CliSummary

CliSpec == CliInit /\ [][CliNext]_vars

\* -------------------------------------------------- index command claims
\* the chunks of the files that succeeded, summed over outcomes[k..]
RECURSIVE SucceededChunks(_)
SucceededChunks(k) ==
  IF k > Len(outcomes) THEN 0
  ELSE (IF outcomes[k].ok THEN outcomes[k].chunksCreated ELSE 0)
         + SucceededChunks(k + 1)

\* C18: in the index command a failure of indexDocument for one file does
\* not stop the run: every found file is attempted exactly once, in list
\* order; at the end successCount + errorCount is the number of files and
\* totalChunks is the sum of chunksCreated over the files that succeeded.
C18_EveryFileAttempted ==
  /\ attempts = [k \in 1..Len(attempts) |-> k]
  /\ kpc = "summary" =>
       /\ attempts = [k \in 1..Len(files) |-> k]
       /\ Len(outcomes) = Len(files)
       /\ successCount = Cardinality({k \in DOMAIN outcomes : outcomes[k].ok})
       /\ errorCount = Cardinality({k \in DOMAIN outcomes : ~outcomes[k].ok})
       /\ successCount + errorCount = Len(files)
       /\ cliTotalChunks = SucceededChunks(1)

\* the first of two files failed, the second was indexed and the summary is
\* reached
C18_Witness ==
  /\ kpc = "summary"
  /\ Len(files) = 2
  /\ ~outcomes[1].ok
  /\ outcomes[2].ok
  /\ cliTotalChunks > 0

\* ------------------------------------------- engine claims, continued
\* the engine call in progress has ended
Ended == epc \in {"returned", "threw"}

\* C22: initialize makes the engine ready when createIndex succeeds or
\* fails with 'already exists'; any other createIndex error is thrown and
\* leaves isInitialized false; on a ready engine initialize makes no store
\* call.
C22_Initialize ==
  (op = "initialize" /\ Ended) =>
    IF atCall.ready
    THEN epc = "returned" /\ storeLog = <<>> /\ isInitialized
    ELSE /\ Len(storeLog) = 1
         /\ storeLog[1].call = "createIndex"
         /\ IF storeLog[1].outcome \in {"ok", "already exists"}
            THEN epc = "returned" /\ isInitialized
            ELSE epc = "threw" /\ thrown = storeLog[1].outcome /\ ~isInitialized

\* initialize has returned on an engine that an earlier initialize made
\* ready
C22_Witness ==
  /\ op = "initialize"
  /\ epc = "returned"
  /\ atCall.ready
  /\ prev = [op |-> "initialize", ok |-> TRUE]
  /\ storeLog = <<>>

\* C23: clearIndex succeeds when deleteIndex succeeds and when it fails
\* with 'does not exist', and throws every other store error; the
\* indexDocument, search or getStats call that follows a successful
\* clearIndex calls createIndex before any other store method.
C23_ClearIndex ==
  /\ (op = "clearIndex" /\ Ended) =>
       /\ Len(storeLog) = 1
       /\ storeLog[1].call = "deleteIndex"
       /\ IF storeLog[1].outcome \in {"ok", "does not exist"}
          THEN epc = "returned"
          ELSE epc = "threw" /\ thrown = storeLog[1].outcome
  /\ (/\ prev = [op |-> "clearIndex", ok |-> TRUE]
      /\ op \in {"indexDocument", "search", "getStats"}) =>
       IF epc = "init"
       THEN storeLog = <<>>
       ELSE storeLog # <<>> /\ storeLog[1].call = "createIndex"

\* a search after a clearIndex that found no index has created the index
\* and queried it
C23_Witness ==
  /\ prev = [op |-> "clearIndex", ok |-> TRUE]
  /\ op = "search"
  /\ epc = "returned"
  /\ ~atCall.exists
  /\ Len(storeLog) = 2
  /\ storeLog[2].call = "queryItems"

\* C26: between calls, whatever calls came before and however they ended,
\* isInitialized implies that the index exists.
C26_ReadyImpliesIndex ==
  (epc = "idle" \/ Ended) => (isInitialized => indexExists)

\* a restoreIndex failed, and the search after it has made the engine
\* ready again
C26_Witness ==
  /\ prev = [op |-> "restoreIndex", ok |-> FALSE]
  /\ op = "search"
  /\ Ended
  /\ atCall.ready = FALSE
  /\ isInitialized
  /\ indexExists

\* ------------------------------------------- search claims, continued
\* C21: a search call issues one store query, never a second one, with
\* candidate count max(topK * 3, 50), and every result it returns is one of
\* the candidates of that query, so its rank is at most max(topK * 3, 50).
C21_OneStoreQuery ==
  /\ Len(queryCalls) <= 1
  /\ spc \in {"querying", "resolved"} =>
       queryCalls = << IF topK * 3 > 50 THEN topK * 3 ELSE 50 >>
  /\ spc = "resolved" =>
       /\ Len(candidates) <= queryCalls[1]
       /\ \A j \in DOMAIN results :
            /\ results[j].chunkIndex \in 1..queryCalls[1]
            /\ \E c \in DOMAIN candidates :
                 /\ candidates[c].chunkIndex = results[j].chunkIndex
                 /\ candidates[c].score = results[j].score
                 /\ candidates[c].text = results[j].text

\* a search with topK = 20 has asked for 60 candidates and returned results
C21_Witness ==
  /\ spc = "resolved"
  /\ topK = AnalyzeTopK
  /\ queryCalls = <<60>>
  /\ Len(results) = MaxStore

\* the result the original search makes of a candidate, part_001 lines
\* 204-215
OriginalResult(c) ==
  [chunkIndex |-> c.chunkIndex, score |-> c.score, text |-> c.text,
   relevancePercentage |-> c.score]

\* the original search, part_001 lines 194-216: the store is asked for
\* exactly k items
OriginalSearch(store, k) ==
  [j \in DOMAIN QueryItems(store, k) |-> OriginalResult(QueryItems(store, k)[j])]

C30_MatchScoreRange ==
  (spc = "resolved" /\ includeTextMatches) =>
    \A j \in DOMAIN results :
      LET r == results[j]
          num == r.textMatchScore[1]
          den == r.textMatchScore[2]
      IN  /\ den > 0
          /\ 0 <= num /\ num <= den
          /\ r.hasDirectMatch <=> r.textMatches # <<>>
          /\ r.hasDirectMatch <=> num > 0

\* results for a whitespace-only query and for a query that repeats a
\* token that matches
C30_Witness ==
  /\ spc = "resolved"
  /\ includeTextMatches
  /\ results # <<>>
  /\ \/ query = QueryBlank
     \/ /\ query = QueryUpperCase
        /\ results[1].textMatchScore = <<2, 2>>

\* ------------------------------------------ chunker claims, continued
\* C29: for every chunk that splitIntoChunks returns, wordCount is the
\* number of whitespace-separated words of the chunk's text, for every
\* input text, texts with leading or trailing whitespace included.
C29_WordCount ==
  ValidArgs =>
    \A k \in DOMAIN chunks : chunks[k].wordCount = Len(RealWords(chunks[k].text))

\* ------------------------------------------- index claims, continued
\* C24: every indexDocument call over a finite list of units eventually
\* resolves or rejects, when every extractor call, embedding call, store
\* call and delay eventually completes.
C24_Terminates == <>(ipc \in {"resolved", "rejected"})

\* a call over a unit of two batches has resolved after its delay
C24_Witness ==
  /\ ipc = "resolved"
  /\ Len(extractedData) = 1
  /\ delays = 1
  /\ totalChunks > BatchSize

\* C25: once indexDocument has rejected for a file, no further insertItem
\* call belonging to that file is issued.
C25_NoInsertAfterReject ==
  [][ipc = "rejected" => insertCount' = insertCount]_vars

\* ------------------------------------------- index command claims, continued
\* C28: in one index command over distinct file paths, no insertItem call
\* made for one file is given the id of an insertItem call made for another
\* file.
C28_DistinctIdsAcrossFiles ==
  /\ \A j, k \in DOMAIN outcomes :
       j # k => outcomes[j].ids \cap outcomes[k].ids = {}
  /\ kpc = "await" =>
       \A j \in DOMAIN outcomes : outcomes[j].ids \cap insertedIds = {}

====
